---- MODULE Spec2Model ----
(***************************************************************************)
(* A model of package pathlib (src/path.go): the Path value type, its pure *)
(* string operations (WithSuffix, JoinPath) and its filesystem operations. *)
(*                                                                         *)
(* A Go string is modelled as a sequence of one-character strings, so that *)
(* "/a.b" is <<"/", "a", ".", "b">>.  len(s) is Len(s), s[i:j] is          *)
(* SubSeq(s, i+1, j) and s + t is s \o t.                                  *)
(***************************************************************************)
EXTENDS Naturals, Sequences, FiniteSets, TLC

VARIABLES
    op,     \* the method that ran last ("new" before any call)
    recv,   \* the receiver Path of that call
    arg,    \* its argument (a suffix, a list of components, ...)
    out,    \* what it returned
    fs,     \* the filesystem: the entry at every absolute path
    pre,    \* the filesystem as it was when the last call began
    pc      \* the steps two concurrent calls have taken (SpecRace)

vars == <<op, recv, arg, out, fs, pre, pc>>

\* the variables the pure string operations never read or write
NoFilesystem == fs = <<>> /\ pre = <<>> /\ pc = <<>>

----------------------------------------------------------------------------
(* Bounds of the model.                                                    *)

\* longest receiver path of WithSuffix, in characters
MaxPathLen == 4
\* longest requested suffix, in characters
MaxSuffixLen == 2

\* longest receiver and longest component of JoinPath, in characters
MaxCompLen == 2
\* most components one JoinPath call is given
MaxComps == 2

\* the characters the operands of JoinPath are written with
JoinChars == {"/", ".", "a"}

\* the characters paths and suffixes are written with
PathChars == {"/", ".", "a", "b", " "}

\* every string of at most n characters over alphabet A
StrsUpTo(A, n) == UNION {[1..k -> A] : k \in 0..n}

----------------------------------------------------------------------------
(* The string helpers of the Go standard library that path.go calls.       *)

\* os.IsPathSeparator on the host the tests run on ('/')
IsPathSeparator(c) == c = "/"

\* unicode.IsSpace, restricted to the characters of the model
IsSpace(c) == c = " "

\* strings.TrimSpace: drop leading and trailing white space
RECURSIVE TrimLeft(_)
TrimLeft(s) ==
    IF s # <<>> /\ IsSpace(Head(s)) THEN TrimLeft(Tail(s)) ELSE s

RECURSIVE TrimRight(_)
TrimRight(s) ==
    IF s # <<>> /\ IsSpace(s[Len(s)])
    THEN TrimRight(SubSeq(s, 1, Len(s) - 1))
    ELSE s

TrimSpace(s) == TrimRight(TrimLeft(s))

\* filepath.Ext: for i := len(path)-1; i >= 0 && !IsPathSeparator(path[i]); i--
\*                   { if path[i] == '.' { return path[i:] } }; return ""
\* (i is the 1-based index here)
RECURSIVE ExtFrom(_, _)
ExtFrom(path, i) ==
    IF i >= 1 /\ ~IsPathSeparator(path[i])
    THEN IF path[i] = "." THEN SubSeq(path, i, Len(path))
         ELSE ExtFrom(path, i - 1)
    ELSE <<>>

\* a faulty Ext that does not stop at the path separator
RECURSIVE ExtAnySegmentFrom(_, _)
ExtAnySegmentFrom(path, i) ==
    IF i >= 1
    THEN IF path[i] = "." THEN SubSeq(path, i, Len(path))
         ELSE ExtAnySegmentFrom(path, i - 1)
    ELSE <<>>

ExtAnySegment(path) == ExtAnySegmentFrom(path, Len(path))

Ext(path) == ExtFrom(path, Len(path))

\* strings.Join(elems, sep)
RECURSIVE StringsJoin(_, _)
StringsJoin(elems, sep) ==
    IF elems = <<>> THEN <<>>
    ELSE IF Len(elems) = 1 THEN elems[1]
    ELSE elems[1] \o sep \o StringsJoin(Tail(elems), sep)

\* the loop of filepath.Clean: path is read from index r (0-based, as in
\* the Go source), buf is the output written so far (out.w is Len(buf)),
\* dotdot is the index in buf where a ".." element must stop backtracking.
\* out.w--; for out.w > dotdot && !IsPathSeparator(out.index(out.w)) { out.w-- }
\* (w is out.w after the first decrement; buf[w + 1] is out.index(w))
RECURSIVE Backtrack(_, _, _)
Backtrack(buf, w, dotdot) ==
    IF w > dotdot /\ ~IsPathSeparator(buf[w + 1])
    THEN Backtrack(buf, w - 1, dotdot)
    ELSE SubSeq(buf, 1, w)

\* the end (0-based, exclusive) of the path element that starts at r
RECURSIVE ElementEnd(_, _)
ElementEnd(path, r) ==
    IF r < Len(path) /\ ~IsPathSeparator(path[r + 1])
    THEN ElementEnd(path, r + 1)
    ELSE r

RECURSIVE CleanLoop(_, _, _, _, _)
CleanLoop(path, r, buf, dotdot, rooted) ==
    LET n == Len(path)
        at(i) == path[i + 1]
    IN  IF r >= n THEN buf
        ELSE IF IsPathSeparator(at(r))
        THEN \* empty path element
             CleanLoop(path, r + 1, buf, dotdot, rooted)
        ELSE IF at(r) = "." /\ (r + 1 = n \/ IsPathSeparator(at(r + 1)))
        THEN \* . element
             CleanLoop(path, r + 1, buf, dotdot, rooted)
        ELSE IF /\ at(r) = "." /\ at(r + 1) = "."
                /\ (r + 2 = n \/ IsPathSeparator(at(r + 2)))
        THEN \* .. element: remove to last separator
             IF Len(buf) > dotdot
             THEN CleanLoop(path, r + 2,
                            Backtrack(buf, Len(buf) - 1, dotdot),
                            dotdot, rooted)
             ELSE IF ~rooted
             THEN LET b == (IF Len(buf) > 0 THEN buf \o <<"/">> ELSE buf)
                           \o <<".", ".">>
                  IN  CleanLoop(path, r + 2, b, Len(b), rooted)
             ELSE CleanLoop(path, r + 2, buf, dotdot, rooted)
        ELSE \* real path element: add slash if needed, copy element
             LET e == ElementEnd(path, r)
                 b == IF (rooted /\ Len(buf) # 1) \/ (~rooted /\ Len(buf) # 0)
                      THEN buf \o <<"/">> ELSE buf
             IN  CleanLoop(path, e, b \o SubSeq(path, r + 1, e), dotdot, rooted)

\* filepath.Clean
Clean(path) ==
    IF path = <<>> THEN <<".">>
    ELSE LET rooted == IsPathSeparator(path[1])
             buf == IF rooted
                    THEN CleanLoop(path, 1, <<"/">>, 1, TRUE)
                    ELSE CleanLoop(path, 0, <<>>, 0, FALSE)
         IN  IF buf = <<>> THEN <<".">> ELSE buf

\* a faulty filepath.Join with POSIX "absolute overrides" semantics: an
\* element that begins with a separator discards the elements before it
RECURSIVE JoinAbsoluteOverrides(_)
JoinAbsoluteOverrides(elem) ==
    IF elem = <<>> THEN <<>>
    ELSE IF \E i \in 2..Len(elem) : elem[i] # <<>> /\ IsPathSeparator(elem[i][1])
    THEN JoinAbsoluteOverrides(Tail(elem))
    ELSE IF elem[1] # <<>> THEN Clean(StringsJoin(elem, <<"/">>))
    ELSE JoinAbsoluteOverrides(Tail(elem))

\* filepath.Join: for i, e := range elem { if e != "" { return
\*   Clean(strings.Join(elem[i:], "/")) } }; return ""
RECURSIVE Join(_)
Join(elem) ==
    IF elem = <<>> THEN <<>>
    ELSE IF elem[1] # <<>> THEN Clean(StringsJoin(elem, <<"/">>))
    ELSE Join(Tail(elem))


----------------------------------------------------------------------------
(* Path.WithSuffix                                                         *)

\* a faulty WithSuffix that always removes the old suffix with its dot
WithSuffixDropsDot(p, suffix) ==
    LET s == TrimSpace(suffix)
        oldSuffix == Ext(p)
    IN  IF Len(oldSuffix) = 0 /\ Len(s) = 0 THEN p
        ELSE IF Len(oldSuffix) = 0 /\ Len(s) > 0 THEN p \o <<".">> \o s
        ELSE SubSeq(p, 1, Len(p) - Len(oldSuffix)) \o s

WithSuffix(p, suffix) ==
    LET pStr == p
        s == TrimSpace(suffix)
        oldSuffix == Ext(pStr)
        oldSuffixLen == IF Len(s) > 0 THEN Len(oldSuffix) - 1
                        ELSE Len(oldSuffix)
    IN  IF Len(oldSuffix) = 0 /\ Len(s) = 0 THEN p
        ELSE IF Len(oldSuffix) = 0 /\ Len(s) > 0 THEN pStr \o <<".">> \o s
        ELSE SubSeq(pStr, 1, Len(pStr) - oldSuffixLen) \o s

----------------------------------------------------------------------------
(* Path.JoinPath                                                           *)

\* The loop of JoinPath, for every choice of the n components still to
\* come: ret := string(p); for _, path := range paths { ret = Join(ret, path) }
\* paths holds the components joined so far, drawn from the set `from`; at
\* the end the call has the arguments paths and returns ret.
RECURSIVE JoinPath(_, _, _, _)
JoinPath(ret, paths, n, from) ==
    IF n = 0 THEN arg' = paths /\ out' = ret
    ELSE \E path \in from : \E joined \in {Join(<<ret, path>>)} :
            JoinPath(joined, Append(paths, path), n - 1, from)

----------------------------------------------------------------------------
(* The host filesystem.                                                    *)
(*                                                                         *)
(* Entries are named by their absolute, clean path.  An entry is absent    *)
(* ("none"), a directory, a regular file with its bytes, or a dangling     *)
(* symbolic link ("link": a link whose target, and the directory of its    *)
(* target, do not exist).  Entry names are the one-character names of      *)
(* Names; the tree holds the entries of the root and those of directory   *)
(* <<"/","a">> (any other directory stays empty).  The                     *)
(* working directory of the process is the root, which always exists, so   *)
(* os.Getwd and with it filepath.Abs never fail.  Permissions and I/O      *)
(* errors are not modelled: a host call fails only for the kind or the     *)
(* absence of the entries on its path.                                     *)

\* longest path handed to a filesystem method, in characters
MaxArgLen == 3

Names == {"a", "b"}
ArgChars == {"/", "."} \cup Names
\* the contents a file can have: empty, or one byte
Contents == {<<>>, <<"x">>}

Root == <<"/">>
Cwd == Root

\* the entry `name` of directory `dir`
Child(dir, name) ==
    IF dir = Root THEN <<"/">> \o name ELSE dir \o <<"/">> \o name

\* the directory that holds entry `node` (the root holds itself)
ParentOf(node) ==
    LET seps == {i \in 1..Len(node) : node[i] = "/"}
        i == CHOOSE k \in seps : \A j \in seps : j <= k
    IN  IF i = 1 THEN Root ELSE SubSeq(node, 1, i - 1)

\* the entries of the modelled tree: those of the root and of /a
Nodes ==
    {Child(Root, <<n>>) : n \in Names}
       \cup {Child(Child(Root, <<"a">>), <<n>>) : n \in Names}

\* node lies below directory dir
IsUnder(node, dir) ==
    /\ node # dir
    /\ IF dir = Root THEN TRUE
       ELSE /\ Len(node) > Len(dir)
            /\ SubSeq(node, 1, Len(dir)) = dir
            /\ node[Len(dir) + 1] = "/"

NoEntry == [kind |-> "none", data |-> <<>>]
DirEntry == [kind |-> "dir", data |-> <<>>]
LinkEntry == [kind |-> "link", data |-> <<>>]
FileEntry(d) == [kind |-> "file", data |-> d]

Entries == {NoEntry, DirEntry, LinkEntry} \cup {FileEntry(d) : d \in Contents}

EntryAt(f, node) ==
    IF node = Root THEN DirEntry
    ELSE IF node \in Nodes THEN f[node]
    ELSE NoEntry

KindOf(f, node) == EntryAt(f, node).kind

\* every entry lies in a directory
ValidFS(f) ==
    \A n \in Nodes : f[n].kind # "none" => KindOf(f, ParentOf(n)) = "dir"

Filesystems == {f \in [Nodes -> Entries] : ValidFS(f)}

\* the elements of a path: its maximal runs of characters other than "/"
RECURSIVE Components(_)
Components(raw) ==
    IF raw = <<>> THEN <<>>
    ELSE IF IsPathSeparator(raw[1]) THEN Components(Tail(raw))
    ELSE LET e == ElementEnd(raw, 0)
         IN  <<SubSeq(raw, 1, e)>> \o Components(SubSeq(raw, e + 1, Len(raw)))

\* the paths the filesystem methods are called with: every element is
\* ".", ".." or a one-character name
ArgPaths ==
    {s \in StrsUpTo(ArgChars, MaxArgLen) :
        \A i \in 1..Len(Components(s)) :
           Len(Components(s)[i]) = 1 \/ Components(s)[i] = <<".", ".">>}

\* one step of the host's path walk: element c looked up in directory cur
Step(cur, c) ==
    IF c = <<".">> THEN cur
    ELSE IF c = <<".", ".">> THEN ParentOf(cur)
    ELSE Child(cur, c)

\* the error of looking something up in an entry that is no directory
NotADirectory(f, node) ==
    IF KindOf(f, node) = "file" THEN "ENOTDIR" ELSE "ENOENT"

\* the host's walk over the elements comps, from directory cur
RECURSIVE WalkFrom(_, _, _)
WalkFrom(f, cur, comps) ==
    IF comps = <<>> THEN [err |-> "", node |-> cur]
    ELSE IF KindOf(f, cur) # "dir"
    THEN [err |-> NotADirectory(f, cur), node |-> cur]
    ELSE WalkFrom(f, Step(cur, Head(comps)), Tail(comps))

\* path resolution of the host (path_resolution(7)) for a path as the
\* caller wrote it: the entry it names (which may be absent), whether its
\* final element is an ordinary name, and whether it ends in a separator
Lookup(f, raw) ==
    LET comps == Components(raw)
        w == WalkFrom(f, Cwd, comps)
    IN  IF raw = <<>>
        THEN [err |-> "ENOENT", node |-> Root, norm |-> FALSE, slash |-> FALSE]
        ELSE [err |-> w.err, node |-> w.node,
              norm |-> comps # <<>> /\ comps[Len(comps)] \notin {<<".">>, <<".", ".">>},
              slash |-> IsPathSeparator(raw[Len(raw)])]

\* stat(2): follows links, so a dangling link does not exist
HostStat(f, raw) ==
    LET l == Lookup(f, raw)
        k == KindOf(f, l.node)
    IN  IF l.err # "" THEN [err |-> l.err, kind |-> "none"]
        ELSE IF k \in {"none", "link"} THEN [err |-> "ENOENT", kind |-> "none"]
        ELSE IF k = "file" /\ l.slash THEN [err |-> "ENOTDIR", kind |-> "none"]
        ELSE [err |-> "", kind |-> k]

\* lstat(2): does not follow a link in the final element
HostLstat(f, raw) ==
    LET l == Lookup(f, raw)
        k == KindOf(f, l.node)
    IN  IF l.err # "" THEN [err |-> l.err, kind |-> "none"]
        ELSE IF k = "none" THEN [err |-> "ENOENT", kind |-> "none"]
        ELSE IF k = "link" /\ l.slash THEN [err |-> "ENOENT", kind |-> "none"]
        ELSE IF k = "file" /\ l.slash THEN [err |-> "ENOTDIR", kind |-> "none"]
        ELSE [err |-> "", kind |-> k]

\* os.OpenFile(raw, flag, perm): flag is the access mode and the set of
\* the further flags.  Returns the filesystem afterwards, the error, and
\* the entry the call would create outside the modelled tree (if any).
HostOpenFile(f, raw, flag) ==
    LET l == Lookup(f, raw)
        k == KindOf(f, l.node)
        fail(e) == [fs |-> f, err |-> e, escapes |-> FALSE]
    IN  IF l.err # "" THEN fail(l.err)
        ELSE IF k = "dir"
        THEN IF flag.access = "O_RDONLY" /\ flag.bits \cap {"O_CREATE", "O_TRUNC"} = {}
             THEN [fs |-> f, err |-> "", escapes |-> FALSE]
             ELSE fail("EISDIR")
        ELSE IF k = "link" THEN fail("ENOENT")
        ELSE IF k = "file"
        THEN IF l.slash THEN fail("ENOTDIR")
             ELSE [fs |-> IF "O_TRUNC" \in flag.bits
                          THEN [f EXCEPT ![l.node] = FileEntry(<<>>)]
                          ELSE f,
                   err |-> "", escapes |-> FALSE]
        ELSE IF "O_CREATE" \notin flag.bits THEN fail("ENOENT")
        ELSE IF l.slash \/ ~l.norm THEN fail("EISDIR")
        ELSE IF l.node \notin Nodes THEN [fs |-> f, err |-> "", escapes |-> TRUE]
        ELSE [fs |-> [f EXCEPT ![l.node] = FileEntry(<<>>)],
              err |-> "", escapes |-> FALSE]

\* a faulty os.Create that opens without O_TRUNC
HostCreateKeepsContent(f, raw) ==
    HostOpenFile(f, raw, [access |-> "O_RDWR", bits |-> {"O_CREATE"}])

\* os.Create(raw) is OpenFile(raw, O_RDWR|O_CREATE|O_TRUNC, 0666)
HostCreate(f, raw) ==
    HostOpenFile(f, raw, [access |-> "O_RDWR", bits |-> {"O_CREATE", "O_TRUNC"}])

\* mkdir(2)
HostMkdir(f, raw) ==
    LET l == Lookup(f, raw)
        k == KindOf(f, l.node)
    IN  IF l.err # "" THEN [fs |-> f, err |-> l.err, escapes |-> FALSE]
        ELSE IF k # "none" THEN [fs |-> f, err |-> "EEXIST", escapes |-> FALSE]
        ELSE IF l.node \notin Nodes THEN [fs |-> f, err |-> "", escapes |-> TRUE]
        ELSE [fs |-> [f EXCEPT ![l.node] = DirEntry], err |-> "", escapes |-> FALSE]

\* os.MkdirAll: the parent of path is path[:i+1], where i is found by
\* skipping the trailing separators and then the last element
RECURSIVE SkipSeparators(_, _)
SkipSeparators(path, i) ==
    IF i >= 1 /\ IsPathSeparator(path[i]) THEN SkipSeparators(path, i - 1) ELSE i

RECURSIVE SkipElement(_, _)
SkipElement(path, i) ==
    IF i >= 1 /\ ~IsPathSeparator(path[i]) THEN SkipElement(path, i - 1) ELSE i

MkdirAllParent(path) ==
    SubSeq(path, 1, SkipElement(path, SkipSeparators(path, Len(path))))

RECURSIVE HostMkdirAll(_, _)
HostMkdirAll(f, path) ==
    LET st == HostStat(f, path)
    IN  IF st.err = ""
        THEN \* fast path: the path exists
             [fs |-> f, err |-> IF st.kind = "dir" THEN "" ELSE "ENOTDIR",
              escapes |-> FALSE]
        ELSE LET parent == MkdirAllParent(path)
                 up == IF Len(parent) > 0 THEN HostMkdirAll(f, parent)
                       ELSE [fs |-> f, err |-> "", escapes |-> FALSE]
             IN  IF up.err # "" \/ up.escapes THEN up
                 ELSE LET mk == HostMkdir(up.fs, path)
                      IN  IF mk.err # "" /\ HostLstat(up.fs, path).kind = "dir"
                          THEN [fs |-> up.fs, err |-> "", escapes |-> FALSE]
                          ELSE mk

\* the filesystem without entry node and everything below it
Without(f, node) ==
    [n \in Nodes |-> IF n = node \/ IsUnder(n, node) THEN NoEntry ELSE f[n]]

IsEmptyDir(f, node) == \A n \in Nodes : IsUnder(n, node) => f[n].kind = "none"

\* os.Remove: unlink(2), and rmdir(2) if that fails
HostRemove(f, raw) ==
    LET l == Lookup(f, raw)
        k == KindOf(f, l.node)
        fail(e) == [fs |-> f, err |-> e]
    IN  IF l.err # "" THEN fail(l.err)
        ELSE IF k = "none" THEN fail("ENOENT")
        ELSE IF k = "dir"
        THEN IF ~l.norm THEN fail("EINVAL")
             ELSE IF ~IsEmptyDir(f, l.node) THEN fail("ENOTEMPTY")
             ELSE [fs |-> Without(f, l.node), err |-> ""]
        ELSE IF l.slash THEN fail(IF k = "link" THEN "ENOENT" ELSE "ENOTDIR")
        ELSE [fs |-> Without(f, l.node), err |-> ""]

\* endsWithDot of os.RemoveAll: the final element of path is "."
EndsWithDot(path) ==
    \/ path = <<".">>
    \/ /\ Len(path) >= 2
       /\ path[Len(path)] = "."
       /\ IsPathSeparator(path[Len(path) - 1])

\* os.RemoveAll: nothing to do for "", EINVAL for a final ".", success when
\* Remove succeeds or finds nothing there; otherwise the tree is removed
\* entry by entry
HostRemoveAll(f, path) ==
    LET rm == HostRemove(f, path)
        l == Lookup(f, path)
    IN  IF path = <<>> THEN [fs |-> f, err |-> ""]
        ELSE IF EndsWithDot(path) THEN [fs |-> f, err |-> "EINVAL"]
        ELSE IF rm.err = "" \/ rm.err = "ENOENT" THEN [fs |-> rm.fs, err |-> ""]
        ELSE IF l.err # "" THEN [fs |-> f, err |-> l.err]
        ELSE [fs |-> Without(f, l.node), err |-> ""]

\* Where os.RemoveAll is left unmodelled: a path whose final element is
\* ".." or that names the root.
RemoveAllModelled(path) ==
    LET comps == Components(path)
    IN  path = <<>> \/ (comps # <<>> /\ comps[Len(comps)] # <<".", ".">>)

----------------------------------------------------------------------------
(* The inspection methods of Path.                                         *)

\* a faulty Abs that returns an absolute path as it is spelled
AbsKeepsSpelling(path) ==
    IF path # <<>> /\ IsPathSeparator(path[1]) THEN path
    ELSE Join(<<Root, path>>)

\* filepath.Abs: Clean(path) for an absolute path, else Join(wd, path)
Abs(path) ==
    IF path # <<>> /\ IsPathSeparator(path[1]) THEN Clean(path)
    ELSE Join(<<Cwd, path>>)

\* Path.Exists: os.Stat of the absolute path succeeds
Exists(f, p) == HostStat(f, Abs(p)).err = ""

\* Path.IsDir
IsDir(f, p) == HostStat(f, Abs(p)).kind = "dir"

\* Path.IsFile
IsFile(f, p) == HostStat(f, Abs(p)).kind = "file"

----------------------------------------------------------------------------
(* The filesystem methods of Path.  Each returns the filesystem afterwards *)
(* and whether it returned an error; `escapes` marks a call that would     *)
(* create an entry outside the modelled tree.                              *)

Result(f, e, esc) == [fs |-> f, err |-> e, escapes |-> esc]

\* Path.Resolve
Resolve(f, p) ==
    LET resolvedPath == Abs(p)
    IN  IF ~Exists(f, resolvedPath) THEN [err |-> TRUE, path |-> p]
        ELSE [err |-> FALSE, path |-> resolvedPath]

\* filepath.Match for patterns of literal characters and "*"
RECURSIVE Match(_, _)
Match(pattern, name) ==
    IF pattern = <<>> THEN name = <<>>
    ELSE IF pattern[1] = "*"
    THEN \E k \in 0..Len(name) :
            Match(Tail(pattern), SubSeq(name, k + 1, Len(name)))
    ELSE /\ name # <<>>
         /\ name[1] = pattern[1]
         /\ Match(Tail(pattern), Tail(name))

\* filepath.Glob of a clean absolute pattern: the entries the directory
\* listings (and, for a pattern without "*", lstat) show, whose elements
\* match the elements of the pattern one by one
HostGlob(f, absPattern) ==
    LET pat == Components(absPattern)
    IN  {n \in Nodes \cup {Root} :
            /\ KindOf(f, n) # "none"
            /\ Len(Components(n)) = Len(pat)
            /\ \A i \in 1..Len(pat) : Match(pat[i], Components(n)[i])}

\* a faulty Glob that matches under the receiver as written, so that the
\* matches of a relative receiver are relative to the working directory
GlobUnderReceiver(f, p, pattern) ==
    IF ~IsDir(f, p) THEN [err |-> TRUE, paths |-> {}]
    ELSE LET matches == HostGlob(f, Join(<<Abs(p), pattern>>))
         IN  [err |-> FALSE,
              paths |-> IF p # <<>> /\ IsPathSeparator(p[1]) THEN matches
                        ELSE {Tail(m) : m \in matches}]

\* Path.Glob
Glob(f, p, pattern) ==
    IF ~IsDir(f, p) THEN [err |-> TRUE, paths |-> {}]
    ELSE [err |-> FALSE, paths |-> HostGlob(f, Join(<<Abs(p), pattern>>))]

\* a faulty Touch that creates without looking first
TouchAlwaysCreates(f, p) ==
    LET c == HostCreate(f, p)
    IN  Result(c.fs, c.err # "", c.escapes)

\* Path.Touch
Touch(f, p) ==
    IF Exists(f, p) THEN Result(f, FALSE, FALSE)
    ELSE LET c == HostCreate(f, p)
         IN  Result(c.fs, c.err # "", c.escapes)

\* the Mkdir of an earlier revision: os.Mkdir, which creates no parents
MkdirNoParents(f, p) ==
    IF Exists(f, p) THEN Result(f, TRUE, FALSE)
    ELSE LET m == HostMkdir(f, p)
         IN  Result(m.fs, m.err # "", m.escapes)

\* Path.Mkdir
Mkdir(f, p) ==
    IF Exists(f, p) THEN Result(f, TRUE, FALSE)
    ELSE LET m == HostMkdirAll(f, p)
         IN  Result(m.fs, m.err # "", m.escapes)

\* Path.WriteBytes: os.Create, then Write of all the bytes, then Close
WriteBytes(f, p, data) ==
    LET c == HostCreate(f, p)
        node == Lookup(f, p).node
    IN  IF c.err # "" \/ c.escapes THEN Result(c.fs, c.err # "", c.escapes)
        ELSE Result([c.fs EXCEPT ![node] = FileEntry(data)], FALSE, FALSE)

\* Path.Unlink
Unlink(f, p) ==
    IF IsDir(f, p) THEN Result(f, TRUE, FALSE)
    ELSE LET r == HostRemove(f, p) IN Result(r.fs, r.err # "", FALSE)

\* a faulty Rmdir that removes the directory with what it holds
RmdirRemovesAll(f, p) ==
    IF ~IsDir(f, p) THEN Result(f, TRUE, FALSE)
    ELSE LET r == HostRemoveAll(f, p) IN Result(r.fs, r.err # "", FALSE)

\* Path.Rmdir
Rmdir(f, p) ==
    IF ~IsDir(f, p) THEN Result(f, TRUE, FALSE)
    ELSE LET r == HostRemove(f, p) IN Result(r.fs, r.err # "", FALSE)

\* Path.RmdirRecursive
RmdirRecursive(f, p) ==
    IF ~IsDir(f, p) THEN Result(f, TRUE, FALSE)
    ELSE LET r == HostRemoveAll(f, p) IN Result(r.fs, r.err # "", FALSE)

\* strings.Contains(mode, c) for a one-character c
Contains(mode, c) == \E i \in 1..Len(mode) : mode[i] = c

\* the permission mode Open passes: 0755
DefaultPerm == 493

\* a faulty flag computation that truncates when opened for writing
OpenFlagTruncates(f, p, mode) ==
    LET access == IF Contains(mode, "r") /\ Contains(mode, "w") THEN "O_RDWR"
                  ELSE IF Contains(mode, "r") THEN "O_RDONLY"
                  ELSE IF Contains(mode, "w") THEN "O_WRONLY"
                  ELSE "O_RDONLY"
        append == IF Contains(mode, "+") THEN {"O_APPEND"} ELSE {}
        create == IF ~Exists(f, p) THEN {"O_CREATE"} ELSE {}
        trunc == IF Contains(mode, "w") THEN {"O_TRUNC"} ELSE {}
    IN  [access |-> access, bits |-> append \cup create \cup trunc]

\* the flag OpenWithPermissions computes from the mode string
OpenFlag(f, p, mode) ==
    LET access == IF Contains(mode, "r") /\ Contains(mode, "w") THEN "O_RDWR"
                  ELSE IF Contains(mode, "r") THEN "O_RDONLY"
                  ELSE IF Contains(mode, "w") THEN "O_WRONLY"
                  ELSE "O_RDONLY"
        append == IF Contains(mode, "+") THEN {"O_APPEND"} ELSE {}
        create == IF ~Exists(f, p) THEN {"O_CREATE"} ELSE {}
    IN  [access |-> access, bits |-> append \cup create]

\* Path.OpenWithPermissions: the filesystem afterwards, the error, and the
\* flag and permissions handed to os.OpenFile (none when it is not called)
OpenWithPermissions(f, p, mode, perms) ==
    IF IsDir(f, p)
    THEN [fs |-> f, err |-> TRUE, escapes |-> FALSE, called |-> FALSE,
          flag |-> [access |-> "O_RDONLY", bits |-> {}], perms |-> perms]
    ELSE LET flag == OpenFlag(f, p, mode)
             o == HostOpenFile(f, p, flag)
         IN  [fs |-> o.fs, err |-> o.err # "", escapes |-> o.escapes,
              called |-> TRUE, flag |-> flag, perms |-> perms]

\* Path.Open
Open(f, p, mode) == OpenWithPermissions(f, p, mode, DefaultPerm)

----------------------------------------------------------------------------
(* The calls of the pure string operations.                                *)

InitSuffix ==
    /\ op = "new"
    /\ recv \in StrsUpTo(PathChars, MaxPathLen)
    /\ arg = <<>>
    /\ out = recv
    /\ NoFilesystem

\* p.WithSuffix(s) on a fresh Path
CallWithSuffix ==
    /\ op = "new"
    /\ \E s \in StrsUpTo(PathChars, MaxSuffixLen) :
          /\ arg' = s
          /\ out' = WithSuffix(recv, s)
    /\ op' = "WithSuffix"
    /\ UNCHANGED <<recv, fs, pre, pc>>

\* the result of p.WithSuffix(s) becomes the receiver of a second
\* WithSuffix(s) with the same suffix
CallWithSuffixAgain ==
    /\ op = "WithSuffix"
    /\ recv' = out
    /\ out' = WithSuffix(out, arg)
    /\ op' = "WithSuffixAgain"
    /\ UNCHANGED <<arg, fs, pre, pc>>

NextSuffix == CallWithSuffix \/ CallWithSuffixAgain

SpecSuffix == InitSuffix /\ [][NextSuffix]_vars

InitJoin ==
    /\ op = "new"
    /\ recv \in StrsUpTo(JoinChars, MaxCompLen)
    /\ arg = <<>>
    /\ out = recv
    /\ NoFilesystem

\* p.JoinPath(c1, ..., cn) with one or more components
CallJoinPath ==
    /\ op = "new"
    /\ \E n \in 1..MaxComps :
          JoinPath(recv, <<>>, n, StrsUpTo(JoinChars, MaxCompLen))
    /\ op' = "JoinPath"
    /\ UNCHANGED <<recv, fs, pre, pc>>

NextJoin == CallJoinPath

SpecJoin == InitJoin /\ [][NextJoin]_vars

----------------------------------------------------------------------------
(* The calls of the filesystem methods.  A call starts from an idle        *)
(* process, runs the whole method and leaves its result in `out`; Return   *)
(* hands the result to the caller, after which the next call can start.    *)

\* longest mode string given to Open, in characters
MaxModeLen == 2
\* longest pattern given to Glob, in characters
MaxPatternLen == 2

ModeChars == {"r", "w", "+"}
PatternChars == {"*", "a", "/", "."}

Init ==
    /\ op = "idle"
    /\ recv = <<>>
    /\ arg = <<>>
    /\ out = [err |-> FALSE]
    /\ fs \in Filesystems
    /\ pre = fs
    /\ pc = <<>>

\* the process is between calls
Idle == op = "idle"

\* the bookkeeping of a call of method m on p with argument a
Called(m, p, a) ==
    /\ op' = m
    /\ recv' = p
    /\ arg' = a
    /\ pre' = fs
    /\ UNCHANGED pc

\* a call that changes the filesystem, and returns only an error; r is the
\* result of the method (bound once by the caller, so that it is computed
\* once)
Mutation(m, p, a, r) ==
    /\ Called(m, p, a)
    /\ ~r.escapes
    /\ fs' = r.fs
    /\ out' = [err |-> r.err]

CallTouch ==
    /\ Idle
    /\ \E p \in ArgPaths : \E r \in {Touch(fs, p)} :
          Mutation("Touch", p, <<>>, r)

CallMkdir ==
    /\ Idle
    /\ \E p \in ArgPaths : \E r \in {Mkdir(fs, p)} :
          Mutation("Mkdir", p, <<>>, r)

CallWriteBytes ==
    /\ Idle
    /\ \E p \in ArgPaths, data \in Contents :
          \E r \in {WriteBytes(fs, p, data)} :
             Mutation("WriteBytes", p, data, r)

CallUnlink ==
    /\ Idle
    /\ \E p \in ArgPaths : \E r \in {Unlink(fs, p)} :
          Mutation("Unlink", p, <<>>, r)

CallRmdir ==
    /\ Idle
    /\ \E p \in ArgPaths : \E r \in {Rmdir(fs, p)} :
          Mutation("Rmdir", p, <<>>, r)

CallRmdirRecursive ==
    /\ Idle
    /\ \E p \in ArgPaths :
          /\ RemoveAllModelled(p)
          /\ \E r \in {RmdirRecursive(fs, p)} :
                Mutation("RmdirRecursive", p, <<>>, r)

CallOpen ==
    /\ Idle
    /\ \E p \in ArgPaths, mode \in StrsUpTo(ModeChars, MaxModeLen) :
          \E r \in {Open(fs, p, mode)} :
              /\ Called("Open", p, mode)
              /\ ~r.escapes
              /\ fs' = r.fs
              /\ out' = [err |-> r.err, called |-> r.called, flag |-> r.flag,
                         perms |-> r.perms]

CallGlob ==
    /\ Idle
    /\ \E p \in ArgPaths, pattern \in StrsUpTo(PatternChars, MaxPatternLen) :
          /\ Called("Glob", p, pattern)
          /\ out' = Glob(fs, p, pattern)
          /\ UNCHANGED fs

CallResolve ==
    /\ Idle
    /\ \E p \in ArgPaths :
          /\ Called("Resolve", p, <<>>)
          /\ out' = Resolve(fs, p)
          /\ UNCHANGED fs

Return ==
    /\ ~Idle
    /\ op' = "idle"
    /\ recv' = <<>>
    /\ arg' = <<>>
    /\ out' = [err |-> FALSE]
    /\ pre' = fs
    /\ UNCHANGED <<fs, pc>>

Next ==
    \/ CallTouch
    \/ CallMkdir
    \/ CallWriteBytes
    \/ CallUnlink
    \/ CallRmdir
    \/ CallRmdirRecursive
    \/ Return

\* the calls that create, write and remove entries
Spec == Init /\ [][Next]_vars

NextOpen == CallOpen \/ Return

\* the calls of Open
SpecOpen == Init /\ [][NextOpen]_vars

NextRead == CallGlob \/ CallResolve \/ Return

\* the calls that only read the filesystem
SpecRead == Init /\ [][NextRead]_vars


----------------------------------------------------------------------------
(* A Touch and a WriteBytes of two processes on the same path, step by     *)
(* step.  pc holds the position of each process and, in order, the steps   *)
(* taken that reach the host; out holds what each has returned.            *)

InitRace ==
    /\ op = "race"
    /\ recv \in ArgPaths
    /\ arg \in Contents
    /\ fs \in Filesystems
    /\ pre = fs
    /\ out = [touch |-> "running", write |-> "running"]
    /\ pc = [touch |-> "check", write |-> "create", steps |-> <<>>]

\* Touch: if p.Exists() { return nil }
TouchCheck ==
    /\ op = "race"
    /\ pc.touch = "check"
    /\ IF Exists(fs, recv)
       THEN /\ pc' = [pc EXCEPT !.touch = "done"]
            /\ out' = [out EXCEPT !.touch = "ok"]
       ELSE /\ pc' = [pc EXCEPT !.touch = "create"]
            /\ UNCHANGED out
    /\ UNCHANGED <<op, recv, arg, fs, pre>>

\* Touch: f, err := os.Create(string(p)); if err != nil { return err }
TouchCreate ==
    /\ op = "race"
    /\ pc.touch = "create"
    /\ \E c \in {HostCreate(fs, recv)} :
          /\ ~c.escapes
          /\ fs' = c.fs
          /\ IF c.err # ""
             THEN /\ pc' = [pc EXCEPT !.touch = "done"]
                  /\ out' = [out EXCEPT !.touch = "error"]
             ELSE /\ pc' = [pc EXCEPT !.touch = "close",
                                      !.steps = Append(@, "TouchCreate")]
                  /\ UNCHANGED out
    /\ UNCHANGED <<op, recv, arg, pre>>

\* Touch: f.Close(); return nil
TouchClose ==
    /\ op = "race"
    /\ pc.touch = "close"
    /\ pc' = [pc EXCEPT !.touch = "done"]
    /\ out' = [out EXCEPT !.touch = "ok"]
    /\ UNCHANGED <<op, recv, arg, fs, pre>>

\* WriteBytes: outfile, err := os.Create(string(p)); if err != nil { return err }
WriteCreate ==
    /\ op = "race"
    /\ pc.write = "create"
    /\ \E c \in {HostCreate(fs, recv)} :
          /\ ~c.escapes
          /\ fs' = c.fs
          /\ IF c.err # ""
             THEN /\ pc' = [pc EXCEPT !.write = "done"]
                  /\ out' = [out EXCEPT !.write = "error"]
             ELSE /\ pc' = [pc EXCEPT !.write = "write",
                                      !.steps = Append(@, "WriteCreate")]
                  /\ UNCHANGED out
    /\ UNCHANGED <<op, recv, arg, pre>>

\* WriteBytes: outfile.Write(data), from offset 0 of the file it opened
WriteWrite ==
    /\ op = "race"
    /\ pc.write = "write"
    /\ fs' = [fs EXCEPT ![Lookup(fs, recv).node] =
                 FileEntry(arg \o SubSeq(@.data, Len(arg) + 1, Len(@.data)))]
    /\ pc' = [pc EXCEPT !.write = "close", !.steps = Append(@, "WriteWrite")]
    /\ UNCHANGED <<op, recv, arg, out, pre>>

\* WriteBytes: the deferred outfile.Close(); return nil
WriteClose ==
    /\ op = "race"
    /\ pc.write = "close"
    /\ pc' = [pc EXCEPT !.write = "done"]
    /\ out' = [out EXCEPT !.write = "ok"]
    /\ UNCHANGED <<op, recv, arg, fs, pre>>

NextRace ==
    \/ TouchCheck
    \/ TouchCreate
    \/ TouchClose
    \/ WriteCreate
    \/ WriteWrite
    \/ WriteClose

\* a Touch and a WriteBytes on one path, interleaved
SpecRace == InitRace /\ [][NextRace]_vars

----------------------------------------------------------------------------
(* What the specification says of WithSuffix, stated without Ext.          *)

\* the 1-based positions of character c in s
Positions(s, c) == {i \in 1..Len(s) : s[i] = c}

Last(S) == CHOOSE i \in S : \A j \in S : j <= i

\* the final segment of p: the text after its last separator
FinalSegment(p) ==
    IF Positions(p, "/") = {} THEN p
    ELSE SubSeq(p, Last(Positions(p, "/")) + 1, Len(p))

\* the existing suffix of p: the text from the last dot of the final
\* segment, empty when the final segment has no dot
ExistingSuffix(p) ==
    LET seg == FinalSegment(p)
    IN  IF Positions(seg, ".") = {} THEN <<>>
        ELSE SubSeq(seg, Last(Positions(seg, ".")), Len(seg))

\* s without its leading and trailing white space
Trimmed(s) ==
    LET keep == {i \in 1..Len(s) : ~IsSpace(s[i])}
    IN  IF keep = {} THEN <<>>
        ELSE SubSeq(s, CHOOSE i \in keep : \A j \in keep : i <= j, Last(keep))

\* p without its last n characters
DropLast(p, n) == SubSeq(p, 1, Len(p) - n)

\* the policy table of WithSuffix
SuffixPolicy(p, s) ==
    LET e == ExistingSuffix(p)
        t == Trimmed(s)
    IN  CASE e = <<>> /\ t = <<>> -> p
          [] e = <<>> /\ t # <<>> -> p \o <<".">> \o t
          [] e # <<>> /\ t # <<>> -> DropLast(p, Len(e)) \o <<".">> \o t
          [] e # <<>> /\ t = <<>> -> DropLast(p, Len(e))

AfterWithSuffix == op \in {"WithSuffix", "WithSuffixAgain"}

\* C1: WithSuffix(s) trims s, takes as existing suffix only the text from
\* the last dot of the final segment, and returns the path the policy table
\* gives for (existing suffix, trimmed suffix); a dot in a directory segment
\* is never the suffix.
C1_WithSuffixPolicy ==
    AfterWithSuffix => out = SuffixPolicy(recv, arg)

\* C1 witness: a path with a dot in a directory segment only, given a
\* suffix with white space around it, got "." and the trimmed suffix appended.
C1_Witness ==
    /\ op = "WithSuffix"
    /\ Positions(recv, ".") # {}
    /\ Positions(FinalSegment(recv), ".") = {}
    /\ arg # Trimmed(arg)
    /\ Trimmed(arg) # <<>>
    /\ out = recv \o <<".">> \o Trimmed(arg)

\* C2 as stated: for every non-empty suffix s (read: not empty once
\* trimmed), p.WithSuffix(s).WithSuffix(s) equals p.WithSuffix(s).
C2_IdempotentAnySuffix ==
    (op = "WithSuffixAgain" /\ Trimmed(arg) # <<>>) => out = recv

\* a suffix that names one extension: after trimming it is not empty and
\* holds neither a dot nor a path separator
PlainSuffix(s) ==
    /\ Trimmed(s) # <<>>
    /\ Positions(Trimmed(s), ".") = {}
    /\ Positions(Trimmed(s), "/") = {}

\* C2 amended: WithSuffix is idempotent for every suffix whose trimmed form
\* is non-empty and holds no dot and no separator, and replacing a suffix
\* by the trimmed suffix the path already has returns the path unchanged.
C2_IdempotentPlainSuffix ==
    /\ (op = "WithSuffixAgain" /\ PlainSuffix(arg)) => out = recv
    /\ (op = "WithSuffix" /\ Trimmed(arg) # <<>>
          /\ ExistingSuffix(recv) = <<".">> \o Trimmed(arg)) => out = recv

\* C2 witness: a second WithSuffix with the same plain, untrimmed suffix
\* returned its receiver.
C2_Witness ==
    /\ op = "WithSuffixAgain"
    /\ PlainSuffix(arg)
    /\ arg # Trimmed(arg)
    /\ ExistingSuffix(recv) = <<".">> \o Trimmed(arg)
    /\ out = recv

----------------------------------------------------------------------------
(* What the specification says of JoinPath.                                *)

\* the segments of s: its maximal runs of characters other than "/"
RECURSIVE Segments(_)
Segments(s) ==
    IF s = <<>> THEN <<>>
    ELSE IF s[1] = "/" THEN Segments(Tail(s))
    ELSE LET stops == {i \in 1..Len(s) : s[i] = "/"}
             e == IF stops = {} THEN Len(s) + 1
                  ELSE CHOOSE i \in stops : \A j \in stops : i <= j
         IN  <<SubSeq(s, 1, e - 1)>> \o Segments(SubSeq(s, e, Len(s)))

RECURSIVE Flatten(_)
Flatten(ss) == IF ss = <<>> THEN <<>> ELSE ss[1] \o Flatten(Tail(ss))

\* the segments of the receiver followed by those of the components
OperandSegments ==
    Segments(recv) \o Flatten([i \in 1..Len(arg) |-> Segments(arg[i])])

\* segments written with one separator between neighbours
RECURSIVE WithSingleSeparators(_)
WithSingleSeparators(segs) ==
    IF segs = <<>> THEN <<>>
    ELSE IF Len(segs) = 1 THEN segs[1]
    ELSE segs[1] \o <<"/">> \o WithSingleSeparators(Tail(segs))

\* the first non-empty operand begins with a separator
OperandsRooted ==
    LET ops == <<recv>> \o arg
        ne == {i \in 1..Len(ops) : ops[i] # <<>>}
    IN  ne # {} /\ ops[CHOOSE i \in ne : \A j \in ne : i <= j][1] = "/"

NoDotSegments(segs) ==
    \A i \in 1..Len(segs) : segs[i] \notin {<<".">>, <<".", ".">>}

\* C4 as stated: JoinPath is the segments of p followed by the segments of
\* c1..cn in order, joined with single separators; no segment is dropped.
C4_JoinKeepsEverySegment ==
    op = "JoinPath" =>
       /\ Segments(out) = OperandSegments
       /\ out \in {WithSingleSeparators(OperandSegments),
                   <<"/">> \o WithSingleSeparators(OperandSegments)}

\* C4 amended: when no segment of the receiver or of a component is "." or
\* "..", JoinPath is the segments of p followed by the segments of c1..cn
\* in order, joined with single separators, with a leading separator
\* exactly when the first non-empty operand begins with one; a component
\* that begins with a separator never discards the segments before it.
C4_JoinKeepsNamedSegments ==
    (op = "JoinPath" /\ NoDotSegments(OperandSegments)) =>
       out = (IF OperandsRooted THEN <<"/">> ELSE <<>>)
                \o WithSingleSeparators(OperandSegments)

\* C4 witness: a component beginning with a separator was appended after
\* the receiver's own segment.
C4_Witness ==
    /\ op = "JoinPath"
    /\ NoDotSegments(OperandSegments)
    /\ Segments(recv) # <<>>
    /\ \E i \in 1..Len(arg) : Len(arg[i]) = 2 /\ arg[i][1] = "/" /\ arg[i][2] # "/"
    /\ Len(Segments(out)) = Len(Segments(recv)) + 2
    /\ Segments(out)[1] = Segments(recv)[1]

----------------------------------------------------------------------------
(* What the specification says of the filesystem methods.  The entry a     *)
(* path names is found here lexically, element by element, and not through *)
(* filepath.Abs and the host's walk.                                       *)

\* the entry at the end of elements segs, followed from entry cur
RECURSIVE Follow(_, _)
Follow(cur, segs) ==
    IF segs = <<>> THEN cur
    ELSE Follow(CASE Head(segs) = <<".">> -> cur
                  [] Head(segs) = <<".", ".">> -> ParentOf(cur)
                  [] OTHER -> Child(cur, Head(segs)),
                Tail(segs))

\* the entry path p names (relative paths start at the working directory)
Named(p) == Follow(Cwd, Segments(p))

\* the entries the proper prefixes of p name, as p is written
PrefixEntries(p) ==
    {Follow(Cwd, SubSeq(Segments(p), 1, k)) : k \in 0..(Len(Segments(p)) - 1)}

\* the host can walk p as written: every proper prefix names a directory
Walkable(f, p) == \A n \in PrefixEntries(p) : KindOf(f, n) = "dir"

\* the last element of p as written is an ordinary name, not "." or ".."
LastIsName(p) ==
    /\ Segments(p) # <<>>
    /\ Segments(p)[Len(Segments(p))] \notin {<<".">>, <<".", ".">>}

\* p as written ends in an ordinary name, with no separator after it
EndsInName(p) == LastIsName(p) /\ p[Len(p)] # "/"

\* the entry and every directory above it
SelfAndAncestors(n) == {m \in Nodes \cup {Root} : m = n \/ IsUnder(n, m)}

\* p exists in filesystem f: it names a directory or a regular file
ExistsIn(f, p) == KindOf(f, Named(p)) \in {"dir", "file"}

\* every entry that existed before the call is unchanged
OldEntriesKept == \A n \in Nodes : pre[n].kind # "none" => fs[n] = pre[n]

\* C5 as stated: Mkdir on an existing path returns an error and changes
\* nothing; Mkdir on a path that does not exist creates the directory and
\* every missing ancestor and leaves every earlier entry unchanged.
C5_MkdirCreatesAnyMissingPath ==
    op = "Mkdir" =>
       /\ ExistsIn(pre, recv) => (out.err /\ fs = pre)
       /\ ~ExistsIn(pre, recv) =>
             /\ ~out.err
             /\ \A n \in SelfAndAncestors(Named(recv)) : KindOf(fs, n) = "dir"
             /\ OldEntriesKept

\* no prefix of p, p included, names a regular file or a dangling link
OnlyDirectoriesOnPath(f, p) ==
    \A n \in PrefixEntries(p) \cup {Named(p)} : KindOf(f, n) \in {"none", "dir"}

\* C5 amended: Mkdir on an existing path returns an error and changes
\* nothing; Mkdir on a path that does not exist, no prefix of which names a
\* regular file or a dangling link, creates the directory and every missing
\* ancestor and leaves every earlier entry unchanged.
C5_MkdirCreatesMissingPath ==
    op = "Mkdir" =>
       /\ ExistsIn(pre, recv) => (out.err /\ fs = pre)
       /\ (~ExistsIn(pre, recv) /\ OnlyDirectoriesOnPath(pre, recv)) =>
             /\ ~out.err
             /\ \A n \in SelfAndAncestors(Named(recv)) : KindOf(fs, n) = "dir"
             /\ OldEntriesKept

\* C5 witness: Mkdir created a directory together with its missing parent.
C5_Witness ==
    /\ op = "Mkdir"
    /\ ~out.err
    /\ Named(recv) # Root
    /\ ParentOf(Named(recv)) # Root
    /\ KindOf(pre, ParentOf(Named(recv))) = "none"
    /\ KindOf(fs, ParentOf(Named(recv))) = "dir"
    /\ KindOf(fs, Named(recv)) = "dir"
    /\ \E n \in Nodes : pre[n].kind # "none"

NonEmptyDir(f, n) ==
    KindOf(f, n) = "dir" /\ \E m \in Nodes : IsUnder(m, n) /\ f[m].kind # "none"

\* the filesystem f without the entries Gone
Remaining(f, Gone) == [n \in Nodes |-> IF n \in Gone THEN NoEntry ELSE f[n]]

Below(n) == {m \in Nodes : m = n \/ IsUnder(m, n)}

\* C6 as stated: Unlink on a directory, and Rmdir and RmdirRecursive on
\* what is no directory, return an error and remove nothing; Rmdir on a
\* non-empty directory returns an error and leaves it in place;
\* RmdirRecursive on a non-empty directory succeeds and removes exactly the
\* directory and what is beneath it.
C6_RemovalPreconditionsAnyPath ==
    /\ (op = "Unlink" /\ KindOf(pre, Named(recv)) = "dir")
          => (out.err /\ fs = pre)
    /\ (op \in {"Rmdir", "RmdirRecursive"} /\ KindOf(pre, Named(recv)) # "dir")
          => (out.err /\ fs = pre)
    /\ (op = "Rmdir" /\ NonEmptyDir(pre, Named(recv)))
          => (out.err /\ fs = pre)
    /\ (op = "RmdirRecursive" /\ NonEmptyDir(pre, Named(recv)))
          => (~out.err /\ fs = Remaining(pre, Below(Named(recv))))

\* C6 amended: as C6, with RmdirRecursive on a non-empty directory
\* succeeding (and removing exactly the directory and what is beneath it)
\* when the path as written ends in an ordinary name and every prefix of it
\* names a directory.
C6_RemovalPreconditions ==
    /\ (op = "Unlink" /\ KindOf(pre, Named(recv)) = "dir")
          => (out.err /\ fs = pre)
    /\ (op \in {"Rmdir", "RmdirRecursive"} /\ KindOf(pre, Named(recv)) # "dir")
          => (out.err /\ fs = pre)
    /\ (op = "Rmdir" /\ NonEmptyDir(pre, Named(recv)))
          => (out.err /\ fs = pre)
    /\ (op = "RmdirRecursive" /\ NonEmptyDir(pre, Named(recv))
           /\ Walkable(pre, recv) /\ LastIsName(recv))
          => (~out.err /\ fs = Remaining(pre, Below(Named(recv))))

\* C6 witness: RmdirRecursive removed a non-empty directory and left an
\* entry outside it in place.
C6_Witness ==
    /\ op = "RmdirRecursive"
    /\ NonEmptyDir(pre, Named(recv))
    /\ ~out.err
    /\ KindOf(fs, Named(recv)) = "none"
    /\ \E n \in Nodes : fs[n].kind # "none"

\* C7 as stated: Touch on an existing path succeeds and changes nothing;
\* Touch on a path that does not exist creates an empty regular file there
\* and nothing else; after a successful Touch, Exists returns true.
C7_TouchCreatesAnyMissingPath ==
    op = "Touch" =>
       /\ ExistsIn(pre, recv) => (~out.err /\ fs = pre)
       /\ ~ExistsIn(pre, recv) =>
             /\ ~out.err
             /\ fs = [pre EXCEPT ![Named(recv)] = FileEntry(<<>>)]
       /\ ~out.err => Exists(fs, recv)

\* C7 amended: Touch on an existing path succeeds and changes nothing;
\* Touch on a path that does not exist either creates an empty regular file
\* there and nothing else, or returns an error and changes nothing (so it
\* never creates a parent directory), and it creates the file whenever the
\* path names nothing (no dangling link), ends in an ordinary name and
\* every prefix of it names a directory; after a successful Touch, Exists
\* returns true.
C7_TouchCreatesInExistingParent ==
    op = "Touch" =>
       /\ ExistsIn(pre, recv) => (~out.err /\ fs = pre)
       /\ (~ExistsIn(pre, recv) /\ ~out.err)
             => fs = [pre EXCEPT ![Named(recv)] = FileEntry(<<>>)]
       /\ (~ExistsIn(pre, recv) /\ out.err) => fs = pre
       /\ (KindOf(pre, Named(recv)) = "none" /\ EndsInName(recv)
             /\ Walkable(pre, recv)) => ~out.err
       /\ ~out.err => Exists(fs, recv)

\* C7 witness: Touch created an empty regular file beside a file that keeps
\* its content.
C7_Witness ==
    /\ op = "Touch"
    /\ ~out.err
    /\ Named(recv) \in Nodes
    /\ pre[Named(recv)] = NoEntry
    /\ fs[Named(recv)] = FileEntry(<<>>)
    /\ \E n \in Nodes : fs[n] = FileEntry(<<"x">>)

\* the characters of a mode string
ModeHas(c) == c \in {arg[i] : i \in 1..Len(arg)}

\* C8: Open on a directory fails, calls nothing and changes nothing;
\* otherwise the host open call gets read-write access for a mode with "r"
\* and "w", read-only for "r" alone or neither, write-only for "w" alone,
\* the append flag exactly when the mode has "+", the create flag exactly
\* when the path did not exist, never the truncate flag, and permissions
\* 0755; an existing file is left as it was.
C8_OpenFlags ==
    op = "Open" =>
       IF KindOf(pre, Named(recv)) = "dir"
       THEN out.err /\ ~out.called /\ fs = pre
       ELSE /\ out.called
            /\ out.flag.access =
                  (CASE ModeHas("r") /\ ModeHas("w") -> "O_RDWR"
                     [] ModeHas("r") /\ ~ModeHas("w") -> "O_RDONLY"
                     [] ~ModeHas("r") /\ ModeHas("w") -> "O_WRONLY"
                     [] OTHER -> "O_RDONLY")
            /\ ("O_APPEND" \in out.flag.bits) <=> ModeHas("+")
            /\ ("O_CREATE" \in out.flag.bits) <=> ~ExistsIn(pre, recv)
            /\ "O_TRUNC" \notin out.flag.bits
            /\ out.perms = 7 * 64 + 5 * 8 + 5
            /\ ExistsIn(pre, recv) => fs = pre

\* C8 witness: an existing file with content was opened for writing and
\* kept its content.
C8_Witness ==
    /\ op = "Open"
    /\ ModeHas("w")
    /\ ~out.err
    /\ out.called
    /\ Named(recv) \in Nodes
    /\ pre[Named(recv)] = FileEntry(<<"x">>)
    /\ fs[Named(recv)] = FileEntry(<<"x">>)
    /\ out.flag.bits = {}

IsAbsolute(p) == p # <<>> /\ p[1] = "/"

\* C9 as stated: Glob on what is no directory returns an error and no
\* paths; when it succeeds each returned Path is absolute and Resolve
\* applied to it succeeds and returns that same Path.
C9_GlobResultsResolve ==
    op = "Glob" =>
       /\ KindOf(fs, Named(recv)) # "dir" => (out.err /\ out.paths = {})
       /\ ~out.err =>
             \A m \in out.paths :
                /\ IsAbsolute(m)
                /\ Resolve(fs, m) = [err |-> FALSE, path |-> m]

\* C9 amended: Glob on what is no directory returns an error and no paths;
\* when it succeeds each returned Path is absolute, and Resolve applied to
\* it returns that same Path, without error when the entry is a directory
\* or a regular file and with an error when it is a dangling symbolic link.
C9_GlobResultsResolveUnlessDangling ==
    op = "Glob" =>
       /\ KindOf(fs, Named(recv)) # "dir" => (out.err /\ out.paths = {})
       /\ ~out.err =>
             \A m \in out.paths :
                /\ IsAbsolute(m)
                /\ KindOf(fs, m) # "none"
                /\ Resolve(fs, m) = [err |-> KindOf(fs, m) = "link", path |-> m]

\* C9 witness: Glob through a relative receiver returned a regular file
\* and a dangling symbolic link.
C9_Witness ==
    /\ op = "Glob"
    /\ ~IsAbsolute(recv)
    /\ ~out.err
    /\ \E m \in out.paths : KindOf(fs, m) = "file"
    /\ \E m \in out.paths : KindOf(fs, m) = "link"

HasDotDot(p) == \E i \in 1..Len(Segments(p)) : Segments(p)[i] = <<".", ".">>

BothSucceeded ==
    /\ op = "race"
    /\ pc.touch = "done" /\ pc.write = "done"
    /\ out.touch = "ok" /\ out.write = "ok"

\* Touch's os.Create ran after the Write of WriteBytes
TouchCreatedAfterWrite ==
    \E i, j \in 1..Len(pc.steps) :
       i < j /\ pc.steps[i] = "WriteWrite" /\ pc.steps[j] = "TouchCreate"

\* C10 as stated: in every interleaving of a Touch with a WriteBytes(data)
\* on the same path, once both have returned success the file holds
\* exactly data.
C10_TouchKeepsWrittenData ==
    BothSucceeded =>
       (Named(recv) \in Nodes /\ fs[Named(recv)] = FileEntry(arg))

\* C10 amended: in every interleaving of a Touch with a WriteBytes(data) on
\* the same path, once both have returned success the path holds a regular
\* file, with exactly data unless the os.Create of Touch ran after the
\* Write of WriteBytes, and empty if it did (Touch has truncated it).
C10_TouchTruncatesAfterLateCreate ==
    BothSucceeded =>
       /\ Named(recv) \in Nodes
       /\ fs[Named(recv)] =
             FileEntry(IF TouchCreatedAfterWrite THEN <<>> ELSE arg)

\* C10 witness: both returned success and the bytes WriteBytes wrote are
\* gone.
C10_Witness ==
    /\ BothSucceeded
    /\ TouchCreatedAfterWrite
    /\ arg = <<"x">>
    /\ Named(recv) \in Nodes
    /\ fs[Named(recv)] = FileEntry(<<>>)

====
